---- MODULE Spec2Model ----
(***************************************************************************)
(* Etymology graph service (backend/database.py, backend/main.py).         *)
(*                                                                         *)
(* The store is the DuckDB database built by ingestion: tables words,     *)
(* links, sequences, language_families and the view v_definitions.  The   *)
(* request handlers only read it.  Strings are modelled as sequences of   *)
(* one-character strings so that lower(), strip() and the node id         *)
(* concatenation are computed and not assumed.  A nullable column is      *)
(* <<>> for NULL and <<v>> for the value v.                                *)
(***************************************************************************)
EXTENDS Integers, Sequences, FiniteSets, TLC

VARIABLES words, links, sequences, language_families, v_definitions,
          call, start, result, response,
          requests, connections,
          files, dl, fetch, definitions_raw, pending, run

vars == <<words, links, sequences, language_families, v_definitions,
          call, start, result, response,
          requests, connections,
          files, dl, fetch, definitions_raw, pending, run>>

\* the requests in progress in the server and the connections they opened
server == <<requests, connections>>

\* the data directory, and the state of the download and enrichment jobs
batch == <<files, dl, fetch, definitions_raw, pending, run>>

store == <<words, links, sequences, language_families, v_definitions>>

(* ------------------------------ bounds -------------------------------- *)
MaxLinks == 3
MaxDepth == 3
MaxCurated == 3
MaxRequests == 2
MaxConnections == 3
ChunksPerFile == 2
MaxRuns == 3

(* ------------------------- program constants -------------------------- *)
COMMIT_EVERY == 100

(* ------------------------------ strings ------------------------------- *)
Null == <<>>
Some(v) == <<v>>

Quote == "\""
Sep == "|"

LowerChar(c) ==
    CASE c = "T" -> "t"
      [] c = "W" -> "w"
      [] c = "M" -> "m"
      [] c = "E" -> "e"
      [] c = "N" -> "n"
      [] OTHER -> c

\* Code points of the characters in use (DuckDB compares VARCHAR bytewise).
CharCode(c) ==
    CASE c = " " -> 32
      [] c = Quote -> 34
      [] c = "%" -> 37
      [] c = "-" -> 45
      [] c = "0" -> 48
      [] c = "1" -> 49
      [] c = "2" -> 50
      [] c = "3" -> 51
      [] c = "4" -> 52
      [] c = "5" -> 53
      [] c = "6" -> 54
      [] c = "7" -> 55
      [] c = "8" -> 56
      [] c = "9" -> 57
      [] c = "E" -> 69
      [] c = "M" -> 77
      [] c = "N" -> 78
      [] c = "T" -> 84
      [] c = "W" -> 87
      [] c = "_" -> 95
      [] c = "a" -> 97
      [] c = "b" -> 98
      [] c = "c" -> 99
      [] c = "d" -> 100
      [] c = "e" -> 101
      [] c = "m" -> 109
      [] c = "n" -> 110
      [] c = "o" -> 111
      [] c = "s" -> 115
      [] c = "t" -> 116
      [] c = "w" -> 119
      [] c = "x" -> 120
      [] c = "z" -> 122
      [] OTHER -> 124

\* s < t in the order of ORDER BY on a VARCHAR column
RECURSIVE StringLess(_, _)
StringLess(s, t) ==
    IF t = <<>> THEN FALSE
    ELSE IF s = <<>> THEN TRUE
    ELSE IF Head(s) # Head(t) THEN CharCode(Head(s)) < CharCode(Head(t))
    ELSE StringLess(Tail(s), Tail(t))

\* s LIKE p: % matches any run of characters, _ any one character
RECURSIVE Like(_, _)
Like(s, p) ==
    IF p = <<>> THEN s = <<>>
    ELSE IF Head(p) = "%" THEN Like(s, Tail(p)) \/ (s # <<>> /\ Like(Tail(s), p))
    ELSE /\ s # <<>>
         /\ (Head(p) = "_" \/ Head(p) = Head(s))
         /\ Like(Tail(s), Tail(p))

Lower(s) == [i \in 1..Len(s) |-> LowerChar(s[i])]

En == <<"e", "n">>
De == <<"d", "e">>
Gem == <<"g", "e", "m">>

(* ------------------------------ the store ----------------------------- *)
Word(ix, lang, lexeme, sense) ==
    [word_ix |-> ix, lang |-> lang, lexeme |-> lexeme, sense |-> sense]

Link(type, source, target) ==
    [type |-> type, source |-> source, target |-> target]

SeqRow(seq_ix, position, parent_ix) ==
    [seq_ix |-> seq_ix, position |-> position, parent_ix |-> parent_ix]

WordPool ==
    { Word(1, De, <<"T", "w">>, Some(<<"c">>)),
      Word(2, En, <<"t", "w">>, Some(<<"a">>)),
      Word(3, En, <<"t", "w">>, Some(<<"b">>)),
      Word(4, En, <<"-", "e">>, Null),
      Word(5, Gem, <<"m", "o">>, Some(<<"m", "o">>)) }

\* The full table, and the table without row 5 (links to 5 then match no word).
WordTables == {WordPool, {w \in WordPool : w.word_ix # 5}}

LinkPool ==
    { Link("inh", 2, 5), Link("inh", 3, 5), Link("cog", 3, 5),
      Link("inh", 2, 3), Link("der", 3, 4), Link("der", 4, 5),
      Link("der", 2, -1), Link("inh", 5, 5), Link("inh", 1, 2),
      Link("inh", 5, 1) }

LinkTables == {L \in SUBSET LinkPool : Cardinality(L) <= MaxLinks}

SequenceTable == { SeqRow(-1, 0, 5), SeqRow(-1, 1, 4) }

LanguageFamilies ==
    { [lang_code |-> En, lang_name |-> <<"E">>, family |-> <<"I">>, branch |-> <<"G">>],
      [lang_code |-> De, lang_name |-> <<"D">>, family |-> <<"I">>, branch |-> <<"G">>] }

Definitions ==
    { [lexeme |-> <<"t", "w">>, definition |-> Some(<<Quote, "d", Quote>>)] }

Queries == { <<>>, <<"T", "W">>, <<"m", "o">>, <<"-", "e">>, <<"z", "z">> }
Depths == 0..MaxDepth
\* depth query parameters sent to GET /graph
GraphDepths == {0, 1, MaxDepth}

(* ----------------------- generic sequence helpers --------------------- *)
Range(s) == {s[i] : i \in 1..Len(s)}

\* The orders in which an unordered SQL scan may return the rows of a table.
ScanOrders(S) ==
    {f \in [1..Cardinality(S) -> S] : \A i, j \in 1..Cardinality(S) : f[i] = f[j] => i = j}

RECURSIVE Strip(_)
Strip(s) ==
    IF s = <<>> THEN s
    ELSE IF Head(s) = Quote THEN Strip(Tail(s))
    ELSE IF s[Len(s)] = Quote THEN Strip(SubSeq(s, 1, Len(s) - 1))
    ELSE s

\* Python truthiness of an optional string: None and "" are falsy.
Truthy(opt) == opt # Null /\ opt[1] # <<>>

(* ------------------------------ helpers ------------------------------- *)
_normalize_depth(depth) == IF depth > 0 THEN depth ELSE 0

_get_language_families ==
    [code \in {r.lang_code : r \in language_families} |->
        LET r == CHOOSE x \in language_families : x.lang_code = code
        IN  [name |-> r.lang_name, family |-> r.family, branch |-> r.branch]]

_get_definitions_for_lexemes(lexemes) ==
    IF lexemes = <<>> \/ v_definitions = Null THEN <<>>
    ELSE LET wanted == {Lower(lex) : lex \in Range(lexemes)}
             rows == {d \in v_definitions[1] :
                          Lower(d.lexeme) \in wanted /\ d.definition # Null}
         IN  [k \in {Lower(d.lexeme) : d \in rows} |->
                 LET d == CHOOSE x \in rows : Lower(x.lexeme) = k
                 IN  IF Truthy(d.definition) THEN Some(Strip(d.definition[1])) ELSE Null]

_make_node_id(lexeme, lang) == lexeme \o <<Sep>> \o lang

\* As _build_node, without the lang == "en" test on the enriched definition.
_build_node_AnyLanguage(lexeme, lang, sense, lang_families, enriched_defs) ==
    LET node == [id |-> _make_node_id(lexeme, lang), lexeme |-> lexeme, lang |-> lang]
        definition ==
            IF DOMAIN enriched_defs # {} /\ Lower(lexeme) \in DOMAIN enriched_defs
            THEN enriched_defs[Lower(lexeme)]
            ELSE IF Truthy(sense) /\ Lower(sense[1]) # Lower(lexeme) THEN sense
            ELSE Null
        withSense == IF Truthy(definition) THEN node @@ [sense |-> definition[1]] ELSE node
    IN  IF lang \in DOMAIN lang_families
        THEN withSense @@ [lang_name |-> lang_families[lang].name,
                           family |-> lang_families[lang].family,
                           branch |-> lang_families[lang].branch]
        ELSE withSense @@ [lang_name |-> lang]

\* As _build_node, with empty family and branch in the fallback branch.
_build_node_EmptyFamily(lexeme, lang, sense, lang_families, enriched_defs) ==
    LET node == [id |-> _make_node_id(lexeme, lang), lexeme |-> lexeme, lang |-> lang]
        definition ==
            IF DOMAIN enriched_defs # {} /\ lang = En /\ Lower(lexeme) \in DOMAIN enriched_defs
            THEN enriched_defs[Lower(lexeme)]
            ELSE IF Truthy(sense) /\ Lower(sense[1]) # Lower(lexeme) THEN sense
            ELSE Null
        withSense == IF Truthy(definition) THEN node @@ [sense |-> definition[1]] ELSE node
    IN  IF lang \in DOMAIN lang_families
        THEN withSense @@ [lang_name |-> lang_families[lang].name,
                           family |-> lang_families[lang].family,
                           branch |-> lang_families[lang].branch]
        ELSE withSense @@ [lang_name |-> lang, family |-> <<>>, branch |-> <<>>]

\* As _build_node, setting node["sense"] without the "if definition" test.
_build_node_SenseAlways(lexeme, lang, sense, lang_families, enriched_defs) ==
    LET node == [id |-> _make_node_id(lexeme, lang), lexeme |-> lexeme, lang |-> lang]
        definition ==
            IF DOMAIN enriched_defs # {} /\ lang = En /\ Lower(lexeme) \in DOMAIN enriched_defs
            THEN enriched_defs[Lower(lexeme)]
            ELSE IF Truthy(sense) /\ Lower(sense[1]) # Lower(lexeme) THEN sense
            ELSE Null
        withSense == node @@ [sense |-> IF definition = Null THEN <<>> ELSE definition[1]]
    IN  IF lang \in DOMAIN lang_families
        THEN withSense @@ [lang_name |-> lang_families[lang].name,
                           family |-> lang_families[lang].family,
                           branch |-> lang_families[lang].branch]
        ELSE withSense @@ [lang_name |-> lang]

_build_node(lexeme, lang, sense, lang_families, enriched_defs) ==
    LET node == [id |-> _make_node_id(lexeme, lang), lexeme |-> lexeme, lang |-> lang]
        definition ==
            IF DOMAIN enriched_defs # {} /\ lang = En /\ Lower(lexeme) \in DOMAIN enriched_defs
            THEN enriched_defs[Lower(lexeme)]
            ELSE IF Truthy(sense) /\ Lower(sense[1]) # Lower(lexeme) THEN sense
            ELSE Null
        withSense == IF Truthy(definition) THEN node @@ [sense |-> definition[1]] ELSE node
    IN  IF lang \in DOMAIN lang_families
        THEN withSense @@ [lang_name |-> lang_families[lang].name,
                           family |-> lang_families[lang].family,
                           branch |-> lang_families[lang].branch]
        ELSE withSense @@ [lang_name |-> lang]

(* --------------------------- start word query ------------------------- *)
\* LEFT JOIN links l ON l.source = w.word_ix ... COUNT(l.target)
LinkCount(w) == Cardinality({l \in links : l.source = w.word_ix})

\* WHERE lower(w.lexeme) = lower(?)
Matches(word) == {w \in words : Lower(w.lexeme) = Lower(word)}

LangRank(w) == IF w.lang = En THEN 0 ELSE 1

\* As StartOrder, with the links counted ascending (the DESC left out).
StartOrder_CountAscending(a, b) ==
    \/ LangRank(a) < LangRank(b)
    \/ /\ LangRank(a) = LangRank(b)
       /\ \/ LinkCount(a) < LinkCount(b)
          \/ /\ LinkCount(a) = LinkCount(b)
             /\ a.word_ix <= b.word_ix

\* As StartOrder, without w.word_ix as the last ORDER BY key.
StartOrder_NoIdTieBreak(a, b) ==
    \/ LangRank(a) < LangRank(b)
    \/ /\ LangRank(a) = LangRank(b)
       /\ LinkCount(a) >= LinkCount(b)

\* ORDER BY CASE WHEN w.lang = 'en' THEN 0 ELSE 1 END, COUNT(l.target) DESC, w.word_ix
StartOrder(a, b) ==
    \/ LangRank(a) < LangRank(b)
    \/ /\ LangRank(a) = LangRank(b)
       /\ \/ LinkCount(a) > LinkCount(b)
          \/ /\ LinkCount(a) = LinkCount(b)
             /\ a.word_ix <= b.word_ix

\* LIMIT 1: the rows that may come first under the ORDER BY.
StartRows(word) == {w \in Matches(word) : \A m \in Matches(word) : StartOrder(w, m)}

(* ------------------------------ traversal ----------------------------- *)
\* JOIN links l ON l.source = t.parent_ix, rows in scan order
RECURSIVE Expand(_, _)
Expand(frontier, scan) ==
    IF frontier = <<>> THEN <<>>
    ELSE SelectSeq(scan, LAMBDA l : l.source = Head(frontier).target)
            \o Expand(Tail(frontier), scan)

\* As TraversalFrom, keeping only the rows of the deepest level.
RECURSIVE TraversalFrom_DeepestLevelOnly(_, _, _, _)
TraversalFrom_DeepestLevelOnly(frontier, scan, lvl, depth) ==
    IF frontier = <<>> \/ lvl >= depth THEN frontier
    ELSE TraversalFrom_DeepestLevelOnly(Expand(frontier, scan), scan, lvl + 1, depth)

\* As TraversalFrom, expanding a row WHERE lvl <= depth.
RECURSIVE TraversalFrom_OneLevelDeeper(_, _, _, _)
TraversalFrom_OneLevelDeeper(frontier, scan, lvl, depth) ==
    IF frontier = <<>> \/ lvl > depth THEN frontier
    ELSE frontier \o TraversalFrom_OneLevelDeeper(Expand(frontier, scan), scan, lvl + 1, depth)

\* WITH RECURSIVE traversal(child_ix, parent_ix, lvl): the rows of level lvl
\* and of the deeper levels, a row being expanded only WHERE lvl < depth.
RECURSIVE TraversalFrom(_, _, _, _)
TraversalFrom(frontier, scan, lvl, depth) ==
    IF frontier = <<>> \/ lvl >= depth THEN frontier
    ELSE frontier \o TraversalFrom(Expand(frontier, scan), scan, lvl + 1, depth)

Traversal(start_ix, scan, depth) ==
    TraversalFrom(SelectSeq(scan, LAMBDA l : l.source = start_ix), scan, 1, depth)

\* The orders in which the scan of words may return its rows to the join;
\* the order matters only when several rows share a word_ix, and <<>> stands
\* for any order when none do.
WordScans ==
    IF \A a, b \in words : a.word_ix = b.word_ix => a = b THEN {<<>>}
    ELSE ScanOrders(words)

\* The rows of words with a word_ix, in scan order.
WordsAt(ix, wscan) ==
    IF wscan = <<>>
    THEN LET at == {w \in words : w.word_ix = ix}
         IN  IF at = {} THEN <<>> ELSE <<CHOOSE w \in at : TRUE>>
    ELSE SelectSeq(wscan, LAMBDA w : w.word_ix = ix)

\* the pairs of one traversal row: every child row with every parent row
RECURSIVE JoinPairs(_, _)
JoinPairs(children, parents) ==
    IF children = <<>> THEN <<>>
    ELSE [i \in 1..Len(parents) |-> [child |-> Head(children), parent |-> parents[i]]]
            \o JoinPairs(Tail(children), parents)

\* JOIN words child ON child.word_ix = tr.child_ix
\* JOIN words parent ON parent.word_ix = tr.parent_ix
RECURSIVE JoinWords(_, _)
JoinWords(tr, wscan) ==
    IF tr = <<>> THEN <<>>
    ELSE JoinPairs(WordsAt(Head(tr).source, wscan), WordsAt(Head(tr).target, wscan))
            \o JoinWords(Tail(tr), wscan)

Records(start_ix, scan, wscan, depth) == JoinWords(Traversal(start_ix, scan, depth), wscan)

\* raw_nodes.setdefault(ix, (lexeme, lang, sense)); the dict keeps insertion order
SetDefault(raw_nodes, w) ==
    IF \E i \in 1..Len(raw_nodes) : raw_nodes[i].word_ix = w.word_ix
    THEN raw_nodes ELSE Append(raw_nodes, w)

\* As AddEdge, without the seen_edges test.
AddEdge_NoSeenEdges(edges, child_id, parent_id) ==
    IF child_id # parent_id
    THEN Append(edges, [source |-> child_id, target |-> parent_id])
    ELSE edges

\* if child_id != parent_id: if edge_key not in seen_edges: edges.append(...)
AddEdge(edges, child_id, parent_id) ==
    IF child_id # parent_id
       /\ ~ \E i \in 1..Len(edges) : edges[i].source = child_id /\ edges[i].target = parent_id
    THEN Append(edges, [source |-> child_id, target |-> parent_id])
    ELSE edges

\* for row in records: ...
RECURSIVE Collect(_, _)
Collect(records, acc) ==
    IF records = <<>> THEN acc
    ELSE LET row == Head(records)
             child_id == _make_node_id(row.child.lexeme, row.child.lang)
             parent_id == _make_node_id(row.parent.lexeme, row.parent.lang)
         IN  Collect(Tail(records),
                     [raw_nodes |-> SetDefault(SetDefault(acc.raw_nodes, row.child), row.parent),
                      edges |-> AddEdge(acc.edges, child_id, parent_id)])

\* The body of fetch_etymology once the start row is known.
Graph(start_row, scan, wscan, depth) ==
    LET lang_families == _get_language_families
        init == [raw_nodes |-> <<start_row>>, edges |-> <<>>]
        acc == IF depth > 0 THEN Collect(Records(start_row.word_ix, scan, wscan, depth), init)
               ELSE init
        english_lexemes == [i \in 1..Len(SelectSeq(acc.raw_nodes, LAMBDA w : w.lang = En)) |->
                               SelectSeq(acc.raw_nodes, LAMBDA w : w.lang = En)[i].lexeme]
        enriched_defs == _get_definitions_for_lexemes(english_lexemes)
        nodes == [i \in 1..Len(acc.raw_nodes) |->
                     _build_node(acc.raw_nodes[i].lexeme, acc.raw_nodes[i].lang,
                                 acc.raw_nodes[i].sense, lang_families, enriched_defs)]
    IN  IF acc.edges = <<>> THEN Null
        ELSE Some([nodes |-> nodes, edges |-> acc.edges])

(* ------------------------------ requests ------------------------------ *)
NoResponse == [status |-> 0]

\* the request slots of the server (worker threads)
Slots == 1..MaxRequests

\* no request in progress, no connection opened yet
ServerIdle ==
    /\ requests = [s \in Slots |-> [pc |-> "idle"]]
    /\ connections = <<>>

\* the files of the data directory: the two CSV files and their .tmp siblings
FILES == {"etymdb_values.csv", "etymdb_links_info.csv"}
Paths == {<<name, suffix>> : name \in FILES, suffix \in {"", ".tmp"}}

\* FILES.items(), in the order of the dict
FileOrder == <<"etymdb_values.csv", "etymdb_links_info.csv">>

\* The content of a file: the number of chunks written to it, and whether it
\* was there before the first download ("old") or written by one ("new").
FileContent(chunks, origin) == [chunks |-> chunks, origin |-> origin]

\* definitions_raw as v_definitions shows it: <<>> when the table does not
\* exist, else its rows (the api_response column reduced to the definition
\* the view extracts from it)
RawOf(view) ==
    IF view = Null THEN Null
    ELSE Some({[lexeme |-> d.lexeme, status |-> "success", definition |-> d.definition] :
                  d \in view[1]})

\* the store was ingested from downloaded CSV files; no job is running
BatchIdle ==
    /\ files = [p \in Paths |-> IF p[2] = "" THEN Some(FileContent(ChunksPerFile, "old")) ELSE Null]
    /\ dl = [pc |-> "idle"]
    /\ fetch = [pc |-> "idle"]
    /\ definitions_raw = RawOf(v_definitions)
    /\ pending = {}
    /\ run = [pc |-> "idle"]

\* fetch_etymology(word, depth): the outcomes (start row, returned value) the
\* call may have; the start row is <<>> when the function returns before or
\* at the start query.
FetchOutcomes(word, depth) ==
    IF word = <<>> \/ StartRows(word) = {}
    THEN {[start |-> Null, result |-> Null]}
    ELSE {[start |-> Some(s), result |-> Graph(s, scan, wscan, _normalize_depth(depth))] :
             s \in StartRows(word), scan \in ScanOrders(links), wscan \in WordScans}

\* A direct call of database.fetch_etymology.
fetch_etymology(word, depth) ==
    /\ \E o \in FetchOutcomes(word, depth) :
          /\ start' = o.start
          /\ result' = o.result
    /\ call' = [op |-> "fetch_etymology", word |-> word, depth |-> depth]
    /\ response' = NoResponse
    /\ UNCHANGED <<store, server, batch>>

\* As ClampDepth, without the cap at 10: max(1, depth).
ClampDepth_NoUpperBound(depth) == IF depth > 1 THEN depth ELSE 1

\* depth = max(1, min(depth, 10))
ClampDepth(depth) ==
    LET capped == IF depth < 10 THEN depth ELSE 10
    IN  IF capped > 1 THEN capped ELSE 1

\* GET /graph/{word}?depth=
get_graph(word, depth) ==
    /\ \E o \in FetchOutcomes(word, ClampDepth(depth)) :
          /\ start' = o.start
          /\ result' = o.result
          /\ response' = IF o.result = Null THEN [status |-> 404]
                         ELSE [status |-> 200, body |-> o.result[1]]
    /\ call' = [op |-> "get_graph", word |-> word, depth |-> depth,
                passed |-> ClampDepth(depth)]
    /\ UNCHANGED <<store, server, batch>>

Init ==
    /\ words \in WordTables
    /\ links \in LinkTables
    /\ sequences = SequenceTable
    /\ language_families = LanguageFamilies
    /\ v_definitions = Some(Definitions)
    /\ call = [op |-> "none", word |-> <<>>, depth |-> 0]
    /\ start = Null
    /\ result = Null
    /\ response = NoResponse
    /\ ServerIdle
    /\ BatchIdle

Next ==
    \/ \E word \in Queries, depth \in Depths : fetch_etymology(word, depth)
    \/ \E word \in Queries \ {<<>>}, depth \in GraphDepths : get_graph(word, depth)

Spec == Init /\ [][Next]_vars

(* ---------------- graph requests over a wide range of depths ---------- *)
\* a chain and a cycle: one traversal row per level however deep
DepthLinkPool ==
    { Link("inh", 2, 5), Link("inh", 5, 1), Link("inh", 1, 2),
      Link("cog", 3, 5), Link("der", 3, 4) }

DepthQueries == { <<"T", "W">>, <<"m", "o">>, <<"z", "z">> }

\* depth arguments below, inside and above the range [1, 10]
WideDepths == {-2, -1, 0, 1, 2, 9, 10, 11, 12}

InitDepth ==
    /\ words = WordPool
    /\ links \in {L \in SUBSET DepthLinkPool : Cardinality(L) <= MaxLinks}
    /\ sequences = SequenceTable
    /\ language_families = LanguageFamilies
    /\ v_definitions = Some(Definitions)
    /\ call = [op |-> "none", word |-> <<>>, depth |-> 0]
    /\ start = Null
    /\ result = Null
    /\ response = NoResponse
    /\ ServerIdle
    /\ BatchIdle

NextDepth ==
    \/ \E word \in DepthQueries, depth \in WideDepths : fetch_etymology(word, depth)
    \/ \E word \in DepthQueries, depth \in WideDepths : get_graph(word, depth)

SpecDepth == InitDepth /\ [][NextDepth]_vars

(* ------------------------------- search ------------------------------ *)
is_phrase(lexeme) == Like(lexeme, <<"%", " ", "%">>)

\* regexp_matches(lexeme, '^[A-Z][a-z]')
is_proper_noun(lexeme) ==
    /\ Len(lexeme) >= 2
    /\ CharCode(lexeme[1]) \in 65..90
    /\ CharCode(lexeme[2]) \in 97..122

is_clean_word(lexeme) == ~is_phrase(lexeme) /\ ~is_proper_noun(lexeme)

\* SELECT DISTINCT w.* FROM words w JOIN links l ON w.word_ix = l.source
\* WHERE w.lang = 'en' AND is_clean_word(w.lexeme)
v_english_curated ==
    {w \in words : /\ \E l \in links : l.source = w.word_ix
                   /\ w.lang = En
                   /\ is_clean_word(w.lexeme)}

_is_useful_sense(sense, lexeme) ==
    IF ~Truthy(sense) THEN FALSE
    ELSE LET sense_lower == Strip(Lower(sense[1]))
         IN  sense_lower \notin {<<>>, <<"n", "o", "n", "e">>} /\ sense_lower # Lower(lexeme)

\* The rows of the search query before ORDER BY: v_english_curated LEFT JOIN
\* v_definitions, filtered by the LIKE pattern lower(query) || '%'.
SearchRows(query) ==
    UNION { LET d == {x \in v_definitions[1] : Lower(x.lexeme) = Lower(w.lexeme)}
            IN  IF d = {}
                THEN {[word_ix |-> w.word_ix, lexeme |-> w.lexeme, sense |-> w.sense,
                       definition |-> Null]}
                ELSE {[word_ix |-> w.word_ix, lexeme |-> w.lexeme, sense |-> w.sense,
                       definition |-> x.definition] : x \in d}
          : w \in {c \in v_english_curated : Like(Lower(c.lexeme), Lower(query) \o <<"%">>)} }

\* As SearchOrder, without length(w.lexeme) in the ORDER BY.
SearchOrder_NoLength(a, b, query) ==
    LET exact(r) == IF Lower(r.lexeme) = Lower(query) THEN 0 ELSE 1
    IN  \/ exact(a) < exact(b)
        \/ /\ exact(a) = exact(b)
           /\ \/ StringLess(a.lexeme, b.lexeme)
              \/ a.lexeme = b.lexeme /\ a.word_ix < b.word_ix

\* ORDER BY CASE WHEN lower(w.lexeme) = lower(?) THEN 0 ELSE 1 END,
\*          length(w.lexeme), w.lexeme, w.word_ix
SearchOrder(a, b, query) ==
    LET exact(r) == IF Lower(r.lexeme) = Lower(query) THEN 0 ELSE 1
    IN  \/ exact(a) < exact(b)
        \/ /\ exact(a) = exact(b)
           /\ \/ Len(a.lexeme) < Len(b.lexeme)
              \/ /\ Len(a.lexeme) = Len(b.lexeme)
                 /\ \/ StringLess(a.lexeme, b.lexeme)
                    \/ a.lexeme = b.lexeme /\ a.word_ix < b.word_ix

RECURSIVE OrderedRows(_, _)
OrderedRows(rows, query) ==
    IF rows = {} THEN <<>>
    ELSE LET first == CHOOSE r \in rows : \A o \in rows \ {r} : ~SearchOrder(o, r, query)
         IN  <<first>> \o OrderedRows(rows \ {first}, query)

\* seen_lexemes: the rows grouped by exact lexeme, in order of insertion
RECURSIVE GroupRows(_, _)
GroupRows(rows, seen_lexemes) ==
    IF rows = <<>> THEN seen_lexemes
    ELSE LET r == Head(rows)
             entry == [sense |-> r.sense, definition |-> r.definition]
             at == {i \in 1..Len(seen_lexemes) : seen_lexemes[i].lexeme = r.lexeme}
         IN  IF at = {}
             THEN GroupRows(Tail(rows),
                            Append(seen_lexemes, [lexeme |-> r.lexeme, entries |-> <<entry>>]))
             ELSE LET i == CHOOSE k \in at : TRUE
                  IN  GroupRows(Tail(rows),
                                [seen_lexemes EXCEPT ![i].entries = Append(@, entry)])

\* the loop over seen_lexemes.items(), with its break
RECURSIVE EmitRows(_, _, _)
EmitRows(groups, results, limit) ==
    IF groups = <<>> THEN results
    ELSE LET lexeme == Head(groups).lexeme
             entries == Head(groups).entries
             Useful(e) == _is_useful_sense(e.sense, lexeme)
             useful_senses == SelectSeq(entries, Useful)
             definition == entries[1].definition
             added ==
                 IF useful_senses # <<>>
                 THEN results \o [i \in 1..Len(useful_senses) |->
                         [word |-> lexeme, sense |-> Some(Strip(useful_senses[i].sense[1]))]]
                 ELSE Append(results,
                         [word |-> lexeme,
                          sense |-> IF Truthy(definition) THEN Some(Strip(definition[1]))
                                    ELSE Null])
         IN  IF Len(added) >= limit THEN added
             ELSE EmitRows(Tail(groups), added, limit)

\* results[:limit]
PySlice(results, limit) ==
    IF limit >= 0
    THEN SubSeq(results, 1, IF limit < Len(results) THEN limit ELSE Len(results))
    ELSE SubSeq(results, 1, IF Len(results) + limit > 0 THEN Len(results) + limit ELSE 0)

\* As SearchOutcome, returning early for the empty query only.
SearchOutcome_NoLengthGuard(query, limit) ==
    IF query = <<>>
    THEN [queried |-> FALSE, raised |-> FALSE, results |-> <<>>]
    ELSE IF v_definitions = Null
    THEN [queried |-> TRUE, raised |-> TRUE, results |-> <<>>]
    ELSE [queried |-> TRUE, raised |-> FALSE,
          results |-> PySlice(EmitRows(GroupRows(OrderedRows(SearchRows(query), query), <<>>),
                                       <<>>, limit), limit)]

\* database.search_words(query, limit): whether it ran its query, whether
\* the query raised (v_definitions does not exist), and the list returned.
SearchOutcome(query, limit) ==
    IF query = <<>> \/ Len(query) < 2
    THEN [queried |-> FALSE, raised |-> FALSE, results |-> <<>>]
    ELSE IF v_definitions = Null
    THEN [queried |-> TRUE, raised |-> TRUE, results |-> <<>>]
    ELSE [queried |-> TRUE, raised |-> FALSE,
          results |-> PySlice(EmitRows(GroupRows(OrderedRows(SearchRows(query), query), <<>>),
                                       <<>>, limit), limit)]

\* A direct call of database.search_words.
search_words(query, limit) ==
    LET o == SearchOutcome(query, limit)
    IN  /\ call' = [op |-> "search_words", word |-> query, depth |-> 0, limit |-> limit,
                    passed |-> limit, queried |-> o.queried, raised |-> o.raised]
        /\ result' = o.results
        /\ response' = NoResponse
        /\ start' = Null
        /\ UNCHANGED <<store, server, batch>>

\* GET /search?q=...&limit=...
search(q, limit) ==
    LET passed == IF limit < 20 THEN limit ELSE 20
        o == IF Len(q) < 2 THEN [queried |-> FALSE, raised |-> FALSE, results |-> <<>>]
             ELSE SearchOutcome(q, passed)
    IN  /\ call' = [op |-> "search", word |-> q, depth |-> 0, limit |-> limit,
                    passed |-> passed, queried |-> o.queried, raised |-> o.raised]
        /\ result' = o.results
        /\ response' = IF o.raised THEN [status |-> 500]
                       ELSE [status |-> 200, body |-> [results |-> o.results]]
        /\ start' = Null
        /\ UNCHANGED <<store, server, batch>>

\* homographs with equal and with different senses, a word without sense, a
\* longer word, an upper-case spelling, a sense 'None', a proper noun, a
\* phrase and a German word
SearchWordPool ==
    { Word(1, En, <<"t", "w">>, Some(<<"a">>)),
      Word(2, En, <<"t", "w">>, Some(<<"a">>)),
      Word(3, En, <<"t", "w">>, Some(<<"b">>)),
      Word(4, En, <<"t", "w">>, Null),
      Word(5, En, <<"t", "w", "o">>, Null),
      Word(6, En, <<"T", "W">>, Some(<<"t", "w">>)),
      Word(7, En, <<"t", "x">>, Some(<<"N", "o", "n", "e">>)),
      Word(8, En, <<"T", "w">>, Some(<<"c">>)),
      Word(9, En, <<"t", " ", "w">>, Some(<<"c">>)),
      Word(10, De, <<"t", "w">>, Some(<<"c">>)) }

\* the links of a store in which the entries S of 1..7 have links; the
\* entries 8, 9 and 10 always have
SearchLinks(S) ==
    {Link("inh", 8, 10), Link("inh", 9, 10), Link("inh", 10, 8), Link("der", 10, 8)}
    \cup {Link("inh", ix, 10) : ix \in S} \cup {Link("der", ix, 8) : ix \in S \cap {1}}

SearchLinkTables ==
    {SearchLinks(S) : S \in {T \in SUBSET (1..7) : Cardinality(T) <= MaxCurated}}
    \cup {SearchLinks(1..7)}

SearchDefinitions ==
    { [lexeme |-> <<"t", "w">>, definition |-> Some(<<Quote, "d", Quote>>)],
      [lexeme |-> <<"t", "w", "o">>, definition |-> Some(<<Quote, "e", Quote>>)],
      [lexeme |-> <<"t", "x">>, definition |-> Null] }

SearchQueries == { <<>>, <<"t">>, <<"T", "W">>, <<"t", "_">>, <<"t", "w", "o">>, <<"z", "z">> }

SearchLimits == {-1, 0, 1, 2, 21}

InitSearch ==
    /\ words = SearchWordPool
    /\ \/ links \in SearchLinkTables /\ v_definitions = Some(SearchDefinitions)
       \/ links = SearchLinks(1..7) /\ v_definitions = Null
    /\ sequences = {}
    /\ language_families = LanguageFamilies
    /\ call = [op |-> "none", word |-> <<>>, depth |-> 0]
    /\ start = Null
    /\ result = Null
    /\ response = NoResponse
    /\ ServerIdle
    /\ BatchIdle

NextSearch ==
    \/ \E query \in SearchQueries, limit \in SearchLimits : search_words(query, limit)
    \/ \E q \in SearchQueries, limit \in SearchLimits : search(q, limit)

SpecSearch == InitSearch /\ [][NextSearch]_vars

(* ----------------------- random word and health ----------------------- *)
\* fetch_random_word(**kwargs): the function declares no parameter, so a call
\* with a keyword argument raises TypeError before any query; otherwise
\* SELECT lexeme FROM v_english_curated ORDER BY random() LIMIT 1.
RandomOutcomes(kwargs) ==
    IF kwargs # {} THEN {[raised |-> TRUE, value |-> Null]}
    ELSE IF v_english_curated = {} THEN {[raised |-> FALSE, value |-> Some([word |-> Null])]}
    ELSE {[raised |-> FALSE, value |-> Some([word |-> Some(w.lexeme)])] : w \in v_english_curated}

\* A direct call of database.fetch_random_word().
fetch_random_word ==
    /\ \E o \in RandomOutcomes({}) : result' = o.value
    /\ call' = [op |-> "fetch_random_word", word |-> <<>>, depth |-> 0]
    /\ response' = NoResponse
    /\ start' = Null
    /\ UNCHANGED <<store, server, batch>>

\* GET /random?include_compound=...
get_random_word(include_compound) ==
    /\ \E o \in RandomOutcomes({"include_compound"}) :
          /\ result' = o.value
          /\ response' = IF o.raised THEN [status |-> 500]
                         ELSE [status |-> 200, body |-> o.value[1]]
    /\ call' = [op |-> "get_random_word", word |-> <<>>, depth |-> 0,
                include_compound |-> include_compound]
    /\ start' = Null
    /\ UNCHANGED <<store, server, batch>>

\* get_db_stats(): the word and definition counts, or an exception when the
\* store cannot be read (always possible) or v_definitions does not exist.
DbStatsOutcomes ==
    {[raised |-> TRUE, reason |-> "error"]}
    \cup (IF v_definitions = Null THEN {}
          ELSE {[raised |-> FALSE,
                 stats |-> [words |-> Cardinality(words),
                            definitions |-> Cardinality(v_definitions[1])]]})

\* As HealthResponse, without the try/except: the exception propagates.
HealthResponse_Propagates(o) ==
    IF o.raised THEN [status |-> 500]
    ELSE [status |-> 200, body |-> [status |-> "healthy", db |-> o.stats]]

\* try: return {"status": "healthy", "db": stats}
\* except Exception as exc: return JSONResponse(status_code=503, ...)
HealthResponse(o) ==
    IF o.raised
    THEN [status |-> 503, body |-> [status |-> "unhealthy", reason |-> o.reason]]
    ELSE [status |-> 200, body |-> [status |-> "healthy", db |-> o.stats]]

\* GET /health
health_check ==
    /\ \E o \in DbStatsOutcomes :
          /\ response' = HealthResponse(o)
          /\ call' = [op |-> "health_check", word |-> <<>>, depth |-> 0, raised |-> o.raised]
    /\ result' = Null
    /\ start' = Null
    /\ UNCHANGED <<store, server, batch>>

\* the links of SearchLinks(S), and links into compound sequences (negative
\* targets) for the entries of C
ServiceLinkTables ==
    {SearchLinks(S) \cup {Link("der", ix, -1) : ix \in C} :
        S \in {T \in SUBSET (1..7) : Cardinality(T) <= MaxCurated}, C \in SUBSET {5, 7}}

InitService ==
    /\ words = SearchWordPool
    /\ links \in ServiceLinkTables
    /\ sequences = SequenceTable
    /\ language_families = LanguageFamilies
    /\ v_definitions \in {Null, Some(SearchDefinitions)}
    /\ call = [op |-> "none", word |-> <<>>, depth |-> 0]
    /\ start = Null
    /\ result = Null
    /\ response = NoResponse
    /\ ServerIdle
    /\ BatchIdle

NextService ==
    \/ fetch_random_word
    \/ \E include_compound \in BOOLEAN : get_random_word(include_compound)
    \/ health_check

SpecService == InitService /\ [][NextService]_vars

(* ------------------------------ download ------------------------------ *)
\* destination = DATA_DIR / name
destination(name) == <<name, "">>

\* As destination_tmp, streaming into the destination path itself.
destination_tmp_InPlace(dest) == dest

\* destination.with_suffix(destination.suffix + ".tmp")
destination_tmp(dest) == <<dest[1], dest[2] \o ".tmp">>

\* Path.replace: rename src to dst, replacing dst
Replace(fs, src, dst) ==
    IF src = dst THEN fs ELSE [fs EXCEPT ![dst] = fs[src], ![src] = Null]

\* download() is called.
download ==
    /\ dl.pc \in {"idle", "done", "failed"}
    /\ dl' = [pc |-> "next", todo |-> FileOrder]
    /\ UNCHANGED <<store, call, start, result, response, server,
                   files, fetch, definitions_raw, pending, run>>

\* The head of the loop over FILES: the end of the loop, "if
\* destination.exists(): continue", or destination_tmp.open("wb").
NextFile ==
    /\ dl.pc = "next"
    /\ IF dl.todo = <<>>
       THEN dl' = [pc |-> "done", todo |-> <<>>] /\ UNCHANGED files
       ELSE IF files[destination(Head(dl.todo))] # Null
       THEN dl' = [dl EXCEPT !.todo = Tail(@)] /\ UNCHANGED files
       ELSE /\ dl' = [dl EXCEPT !.pc = "stream"]
            /\ files' = [files EXCEPT ![destination_tmp(destination(Head(dl.todo)))] =
                            Some(FileContent(0, "new"))]
    /\ UNCHANGED <<store, call, start, result, response, server,
                   fetch, definitions_raw, pending, run>>

\* for chunk in _iter_download(client, url): fh.write(chunk)
WriteChunk ==
    /\ dl.pc = "stream"
    /\ LET tmp == destination_tmp(destination(Head(dl.todo)))
       IN  /\ files[tmp][1].chunks < ChunksPerFile
           /\ files' = [files EXCEPT ![tmp] = Some(FileContent(@[1].chunks + 1, "new"))]
    /\ UNCHANGED <<store, call, start, result, response, server,
                   dl, fetch, definitions_raw, pending, run>>

\* The stream is exhausted: destination_tmp.replace(destination).
Rename ==
    /\ dl.pc = "stream"
    /\ LET dest == destination(Head(dl.todo))
           tmp == destination_tmp(dest)
       IN  /\ files[tmp][1].chunks = ChunksPerFile
           /\ files' = Replace(files, tmp, dest)
    /\ dl' = [pc |-> "next", todo |-> Tail(dl.todo)]
    /\ UNCHANGED <<store, call, start, result, response, server,
                   fetch, definitions_raw, pending, run>>

\* raise_for_status() or the stream raises: the exception leaves download().
DownloadFails ==
    /\ dl.pc = "stream"
    /\ dl' = [dl EXCEPT !.pc = "failed"]
    /\ UNCHANGED <<store, call, start, result, response, server,
                   files, fetch, definitions_raw, pending, run>>

\* each CSV file absent or complete, each .tmp absent or left over from a
\* download that failed
InitDownload ==
    /\ words = SearchWordPool
    /\ links = SearchLinks(1..7)
    /\ sequences = SequenceTable
    /\ language_families = LanguageFamilies
    /\ v_definitions = Some(SearchDefinitions)
    /\ call = [op |-> "none", word |-> <<>>, depth |-> 0]
    /\ start = Null
    /\ result = Null
    /\ response = NoResponse
    /\ ServerIdle
    /\ files \in {f \in [Paths -> {Null, Some(FileContent(ChunksPerFile, "old")),
                                  Some(FileContent(1, "old"))}] :
                    \A name \in FILES :
                        /\ f[<<name, "">>] # Some(FileContent(1, "old")) \/ ChunksPerFile = 1
                        /\ f[<<name, ".tmp">>] # Some(FileContent(ChunksPerFile, "old"))
                           \/ ChunksPerFile = 1}
    /\ dl = [pc |-> "idle"]
    /\ fetch = [pc |-> "idle"]
    /\ definitions_raw = RawOf(v_definitions)
    /\ pending = {}
    /\ run = [pc |-> "idle"]

NextDownload ==
    \/ download
    \/ NextFile
    \/ WriteChunk
    \/ Rename
    \/ DownloadFails

SpecDownload == InitDownload /\ [][NextDownload]_vars

(* ------------------------- fetch_definition --------------------------- *)
\* What session.get(url) may give: a response with a status (for 200, a body
\* that resp.json() parses or not), or an exception.
HttpResponse(status, json) ==
    [kind |-> "response", status |-> status, json |-> json,
     data |-> IF json THEN <<Quote, "d", Quote>> ELSE <<>>]

HttpOutcomes ==
    { HttpResponse(200, TRUE), HttpResponse(200, FALSE), HttpResponse(404, FALSE),
      HttpResponse(429, FALSE), HttpResponse(500, FALSE),
      [kind |-> "exception", status |-> 0, json |-> FALSE, data |-> <<>>] }

\* As AttemptOutcome, with 404 handled by the final else branch.
AttemptOutcome_Retry404(attempt, resp) ==
    IF resp.kind = "response" /\ resp.status = 200 /\ resp.json THEN "success"
    ELSE IF attempt < 2 THEN "retry"
    ELSE "error"

\* One pass of "for attempt in range(3)": the status returned, or "retry"
\* when the loop continues.  resp.json() raising is caught by the except
\* branch; a 429 on the last pass leaves the loop, which returns "error".
AttemptOutcome(attempt, resp) ==
    IF resp.kind = "response" /\ resp.status = 200 /\ resp.json THEN "success"
    ELSE IF resp.kind = "response" /\ resp.status = 404 THEN "not_found"
    ELSE IF attempt < 2 THEN "retry"
    ELSE "error"

\* fetch_definition(session, word) is called.
fetch_definition(word) ==
    /\ fetch.pc \in {"idle", "done"}
    /\ fetch' = [pc |-> "attempt", word |-> word, attempt |-> 0, log |-> <<>>,
                 status |-> "", payload |-> Null]
    /\ UNCHANGED <<store, call, start, result, response, server,
                   files, dl, definitions_raw, pending, run>>

\* One HTTP attempt of the call in progress.
Attempt(resp) ==
    /\ fetch.pc = "attempt"
    /\ LET o == AttemptOutcome(fetch.attempt, resp)
       IN  fetch' = IF o = "retry"
                    THEN [fetch EXCEPT !.attempt = @ + 1, !.log = Append(@, resp)]
                    ELSE [fetch EXCEPT !.pc = "done", !.log = Append(@, resp), !.status = o,
                                       !.payload = IF o = "success" THEN Some(resp.data)
                                                   ELSE Null]
    /\ UNCHANGED <<store, call, start, result, response, server,
                   files, dl, definitions_raw, pending, run>>

InitFetch ==
    /\ words = SearchWordPool
    /\ links = SearchLinks(1..7)
    /\ sequences = SequenceTable
    /\ language_families = LanguageFamilies
    /\ v_definitions = Some(SearchDefinitions)
    /\ call = [op |-> "none", word |-> <<>>, depth |-> 0]
    /\ start = Null
    /\ result = Null
    /\ response = NoResponse
    /\ ServerIdle
    /\ BatchIdle

NextFetch ==
    \/ \E word \in {w.lexeme : w \in v_english_curated} : fetch_definition(word)
    \/ \E resp \in HttpOutcomes : Attempt(resp)

SpecFetch == InitFetch /\ [][NextFetch]_vars

(* ------------------------- enrich_definitions ------------------------- *)
Rows(raw) == IF raw = Null THEN {} ELSE raw[1]

\* CREATE OR REPLACE VIEW v_definitions AS SELECT lexeme, ... definition
\* FROM definitions_raw WHERE status = 'success'
ViewOf(raw) ==
    IF raw = Null THEN Null
    ELSE Some({[lexeme |-> r.lexeme, definition |-> r.definition] :
                  r \in {x \in raw[1] : x.status = "success"}})

\* INSERT OR REPLACE INTO definitions_raw: lexeme is the primary key
Upsert(rows, new) ==
    {r \in rows : \A n \in new : n.lexeme # r.lexeme} \cup new

\* COMMIT of the rows written since the last commit, and of the CREATE TABLE
Commit(raw, written) == Some(Upsert(Rows(raw), written))

\* ORDER BY lexeme over distinct lexemes: each goes to the place given by
\* the number of lexemes before it
OrderByLexeme(lexemes) ==
    LET placed == {<<Cardinality({y \in lexemes : StringLess(y, x)}) + 1, x>> :
                      x \in lexemes}
    IN  [k \in 1..Cardinality(lexemes) |-> (CHOOSE p \in placed : p[1] = k)[2]]

\* As get_words_to_enrich, without "WHERE d.lexeme IS NULL".
get_words_to_enrich_NoAntiJoin ==
    OrderByLexeme({c.lexeme : c \in v_english_curated})

\* SELECT DISTINCT c.lexeme FROM v_english_curated c
\* LEFT JOIN definitions_raw d ON c.lexeme = d.lexeme WHERE d.lexeme IS NULL
\* ORDER BY c.lexeme (every curated lexeme when the table does not exist)
get_words_to_enrich ==
    LET done == {r.lexeme : r \in Rows(definitions_raw)}
    IN  OrderByLexeme({c.lexeme : c \in v_english_curated} \ done)

\* the three-character numerals 000, 001, ...
Digits == <<"0", "1", "2", "3", "4", "5", "6", "7", "8", "9">>
Numeral(k) ==
    <<Digits[(k \div 100) + 1], Digits[((k \div 10) % 10) + 1], Digits[(k % 10) + 1]>>

\* The statuses fetch_definition may return for a word; the dictionary is
\* taken to know none of the numerals.
FetchStatuses(word) ==
    IF word[1] \in Range(Digits) THEN {"not_found"}
    ELSE {"success", "not_found", "error"}

\* enrich_definitions(max_words) is started (0 stands for None: "if
\* max_words" treats both alike); it returns at once when no word is left.
enrich_definitions(max_words) ==
    /\ run.pc \in {"idle", "done", "aborted"}
    /\ run.runs < MaxRuns
    /\ LET all == get_words_to_enrich
           todo == IF max_words # 0 THEN PySlice(all, max_words) ELSE all
       IN  IF Len(todo) = 0
           THEN /\ run' = [run EXCEPT !.pc = "done", !.max_words = max_words,
                                      !.words = <<>>, !.i = 0, !.runs = @ + 1]
                /\ UNCHANGED <<definitions_raw, v_definitions>>
           ELSE /\ run' = [run EXCEPT !.pc = "loop", !.max_words = max_words,
                                      !.words = todo, !.i = 0, !.runs = @ + 1]
                /\ definitions_raw' = IF run.autocommit THEN Commit(definitions_raw, {})
                                      ELSE definitions_raw
                /\ v_definitions' = ViewOf(definitions_raw')
    /\ UNCHANGED <<words, links, sequences, language_families, call, start, result,
                   response, server, files, dl, fetch, pending>>

\* One pass of the loop: fetch_definition, store_result and, every
\* COMMIT_EVERY words, conn.commit().
EnrichWord ==
    /\ run.pc = "loop"
    /\ run.i < Len(run.words)
    /\ \E status \in FetchStatuses(run.words[run.i + 1]) :
          LET row == [lexeme |-> run.words[run.i + 1], status |-> status,
                      definition |-> IF status = "success" THEN Some(<<Quote, "d", Quote>>)
                                     ELSE Null]
              written == Upsert(pending, {row})
              commits == run.autocommit \/ (run.i + 1) % COMMIT_EVERY = 0
          IN  /\ definitions_raw' = IF commits THEN Commit(definitions_raw, written)
                                    ELSE definitions_raw
              /\ pending' = IF commits THEN {} ELSE written
    /\ v_definitions' = ViewOf(definitions_raw')
    /\ run' = [run EXCEPT !.i = @ + 1]
    /\ UNCHANGED <<words, links, sequences, language_families, call, start, result,
                   response, server, files, dl, fetch>>

\* The loop has ended: the last conn.commit().
EnrichDone ==
    /\ run.pc = "loop"
    /\ run.i = Len(run.words)
    /\ definitions_raw' = Commit(definitions_raw, pending)
    /\ v_definitions' = ViewOf(definitions_raw')
    /\ pending' = {}
    /\ run' = [run EXCEPT !.pc = "done"]
    /\ UNCHANGED <<words, links, sequences, language_families, call, start, result,
                   response, server, files, dl, fetch>>

\* The run is interrupted or raises: the connection is closed and what was
\* written since the last commit is rolled back.
EnrichInterrupted ==
    /\ run.pc = "loop"
    /\ pending' = {}
    /\ run' = [run EXCEPT !.pc = "aborted"]
    /\ UNCHANGED <<store, call, start, result, response, server,
                   files, dl, fetch, definitions_raw>>

\* COMMIT_EVERY + 1 curated words, each with one link
ManyWords == {Word(1000 + k, En, Numeral(k), Null) : k \in 0..COMMIT_EVERY}
ManyLinks == {Link("inh", 1000 + k, 1000) : k \in 0..COMMIT_EVERY}

\* what an earlier run may have stored
EarlierRows ==
    { Null, Some({}),
      Some({[lexeme |-> <<"t", "w">>, status |-> "success",
             definition |-> Some(<<Quote, "d", Quote>>)],
            [lexeme |-> <<"t", "x">>, status |-> "error", definition |-> Null]}) }

\* A store of a few words or of many; DuckDB commits each statement at once
\* outside an explicit transaction (autocommit), and the runs are also
\* modelled over a connection that keeps its writes until commit(). Over
\* the many words only the latter is followed: with autocommit every pass
\* of the loop commits, whatever the number of words.
InitEnrich ==
    /\ \E autocommit \in BOOLEAN :
          run = [pc |-> "idle", autocommit |-> autocommit, max_words |-> 0,
                 words |-> <<>>, i |-> 0, runs |-> 0]
    /\ \/ /\ words = SearchWordPool
          /\ links \in {SearchLinks(S) : S \in {{}, {7}, {1, 2, 5}, {1, 6, 7}, 1..7}}
          /\ definitions_raw \in EarlierRows
       \/ /\ words = ManyWords
          /\ links = ManyLinks
          /\ definitions_raw = Null
          /\ ~run.autocommit
    /\ sequences = {}
    /\ language_families = LanguageFamilies
    /\ v_definitions = ViewOf(definitions_raw)
    /\ call = [op |-> "none", word |-> <<>>, depth |-> 0]
    /\ start = Null
    /\ result = Null
    /\ response = NoResponse
    /\ ServerIdle
    /\ files = [p \in Paths |-> IF p[2] = "" THEN Some(FileContent(ChunksPerFile, "old")) ELSE Null]
    /\ dl = [pc |-> "idle"]
    /\ fetch = [pc |-> "idle"]
    /\ pending = {}

NextEnrich ==
    \/ \E max_words \in {0, 1} : enrich_definitions(max_words)
    \/ EnrichWord
    \/ EnrichDone
    \/ EnrichInterrupted

SpecEnrich == InitEnrich /\ [][NextEnrich]_vars

(* ------------------------- concurrent requests ------------------------ *)
\* fetch_language_info(lang_code)
fetch_language_info(lang_code) ==
    IF \E r \in language_families : r.lang_code = lang_code
    THEN LET r == CHOOSE x \in language_families : x.lang_code = lang_code
         IN  Some([name |-> r.lang_name, family |-> r.family, branch |-> r.branch])
    ELSE Null

\* the calls of database functions a request makes
Calls ==
    {[op |-> "fetch_etymology", word |-> <<>>, arg |-> 1],
     [op |-> "fetch_etymology", word |-> <<"T", "W">>, arg |-> 1],
     [op |-> "fetch_etymology", word |-> <<"m", "o">>, arg |-> 2],
     [op |-> "fetch_etymology", word |-> <<"z", "z">>, arg |-> 1],
     [op |-> "search_words", word |-> <<"T", "W">>, arg |-> 10],
     [op |-> "fetch_random_word", word |-> <<>>, arg |-> 0],
     [op |-> "fetch_language_info", word |-> Gem, arg |-> 0]}

\* The function returns before its with block: "if not word: return None",
\* "if not query or len(query) < 2: return []".
ReturnsBeforeBlock(c) ==
    \/ c.op = "fetch_etymology" /\ c.word = <<>>
    \/ c.op = "search_words" /\ Len(c.word) < 2

\* A database function is called in slot s.
Call(s, c) ==
    /\ requests[s].pc \in {"idle", "returned", "raised"}
    /\ requests' = [requests EXCEPT ![s] =
          [pc |-> IF ReturnsBeforeBlock(c) THEN "returned" ELSE "enter",
           call |-> c, conn |-> 0, start |-> Null,
           result |-> IF c.op = "fetch_etymology" THEN Null ELSE <<>>, exc |-> FALSE]]
    /\ UNCHANGED <<connections, store, call, start, result, response, batch>>

\* _ConnectionManager.__enter__: duckdb.connect(path, read_only=True); when
\* connect raises, the with block is not entered and __exit__ is not called.
Enter(s) ==
    /\ requests[s].pc = "enter"
    /\ \/ /\ Len(connections) < MaxConnections
          /\ connections' = Append(connections, [owner |-> s, read_only |-> TRUE, open |-> TRUE])
          /\ requests' = [requests EXCEPT ![s].pc = "block", ![s].conn = Len(connections) + 1]
       \/ /\ requests' = [requests EXCEPT ![s].pc = "raised", ![s].exc = TRUE]
          /\ UNCHANGED connections
    /\ UNCHANGED <<store, call, start, result, response, batch>>

\* As StartOf, with the start row kept in a variable shared by the requests.
StartOf_Shared(s) ==
    IF \E t \in Slots \ {s} : requests[t].pc \in {"traverse", "exit", "returned"}
                              /\ requests[t].start # Null
    THEN requests[CHOOSE t \in Slots \ {s} : requests[t].pc \in {"traverse", "exit", "returned"}
                                             /\ requests[t].start # Null].start[1]
    ELSE requests[s].start[1]

\* start_ix, start_lang, start_lexeme, start_sense = start
StartOf(s) == requests[s].start[1]

\* fetch_etymology: the start query; "if not start: return None"
StartQuery(s) ==
    /\ requests[s].pc = "block"
    /\ requests[s].call.op = "fetch_etymology"
    /\ IF StartRows(requests[s].call.word) = {}
       THEN requests' = [requests EXCEPT ![s].pc = "exit", ![s].result = Null]
       ELSE \E row \in StartRows(requests[s].call.word) :
               requests' = [requests EXCEPT ![s].pc = "traverse", ![s].start = Some(row)]
    /\ UNCHANGED <<connections, store, call, start, result, response, batch>>

\* fetch_etymology: the traversal and the rest of the block
Traverse(s) ==
    /\ requests[s].pc = "traverse"
    /\ \E scan \in ScanOrders(links), wscan \in WordScans :
          requests' = [requests EXCEPT
              ![s].pc = "exit",
              ![s].result = Graph(StartOf(s), scan, wscan,
                                  _normalize_depth(requests[s].call.arg))]
    /\ UNCHANGED <<connections, store, call, start, result, response, batch>>

\* The block of search_words, fetch_random_word or fetch_language_info.
Block(s) ==
    /\ requests[s].pc = "block"
    /\ LET c == requests[s].call
       IN  \/ /\ c.op = "search_words"
              /\ LET o == SearchOutcome(c.word, c.arg)
                 IN  requests' = [requests EXCEPT ![s].pc = "exit", ![s].exc = o.raised,
                                                  ![s].result = o.results]
           \/ /\ c.op = "fetch_random_word"
              /\ \E o \in RandomOutcomes({}) :
                    requests' = [requests EXCEPT ![s].pc = "exit", ![s].result = o.value]
           \/ /\ c.op = "fetch_language_info"
              /\ requests' = [requests EXCEPT ![s].pc = "exit",
                                              ![s].result = fetch_language_info(c.word)]
    /\ UNCHANGED <<connections, store, call, start, result, response, batch>>

\* As _exit, closing the connection only when the block ended without exception.
_exit_OnlyOnReturn(conns, conn, exc) ==
    IF conn # 0 /\ ~exc THEN [conns EXCEPT ![conn].open = FALSE] ELSE conns

\* _ConnectionManager.__exit__: if self._conn is not None: self._conn.close()
_exit(conns, conn, exc) ==
    IF conn # 0 THEN [conns EXCEPT ![conn].open = FALSE] ELSE conns

\* The with block is left, by return or by exception.
Exit(s) ==
    /\ requests[s].pc = "exit"
    /\ connections' = _exit(connections, requests[s].conn, requests[s].exc)
    /\ requests' = [requests EXCEPT ![s].pc = IF requests[s].exc THEN "raised" ELSE "returned"]
    /\ UNCHANGED <<store, call, start, result, response, batch>>

InitServer ==
    /\ words = WordPool
    /\ links = {Link("inh", 2, 5), Link("inh", 5, 1)}
    /\ sequences = SequenceTable
    /\ language_families = LanguageFamilies
    /\ v_definitions \in {Null, Some(Definitions)}
    /\ call = [op |-> "none", word |-> <<>>, depth |-> 0]
    /\ start = Null
    /\ result = Null
    /\ response = NoResponse
    /\ ServerIdle
    /\ BatchIdle

NextServer ==
    \/ \E s \in Slots, c \in Calls : Call(s, c)
    \/ \E s \in Slots : Enter(s)
    \/ \E s \in Slots : StartQuery(s)
    \/ \E s \in Slots : Traverse(s)
    \/ \E s \in Slots : Block(s)
    \/ \E s \in Slots : Exit(s)

SpecServer == InitServer /\ [][NextServer]_vars

(* ------- graph requests over stores in which word rows share an id ----- *)
\* two rows with word_ix 5
SharedWordPool ==
    { Word(1, De, <<"T", "w">>, Some(<<"c">>)),
      Word(2, En, <<"t", "w">>, Some(<<"a">>)),
      Word(5, Gem, <<"m", "o">>, Some(<<"m", "o">>)),
      Word(5, De, <<"z", "z">>, Some(<<"b">>)) }

SharedLinkPool ==
    { Link("inh", 2, 5), Link("inh", 5, 1), Link("der", 2, 1), Link("inh", 1, 5) }

InitShared ==
    /\ words \in {SharedWordPool, SharedWordPool \ {Word(5, De, <<"z", "z">>, Some(<<"b">>))}}
    /\ links \in {L \in SUBSET SharedLinkPool : Cardinality(L) <= MaxLinks}
    /\ sequences = {}
    /\ language_families = LanguageFamilies
    /\ v_definitions = Some(Definitions)
    /\ call = [op |-> "none", word |-> <<>>, depth |-> 0]
    /\ start = Null
    /\ result = Null
    /\ response = NoResponse
    /\ ServerIdle
    /\ BatchIdle

NextShared ==
    \/ \E word \in {<<"T", "W">>, <<"z", "z">>}, depth \in {1, 2} : fetch_etymology(word, depth)
    \/ \E word \in {<<"T", "W">>, <<"z", "z">>}, depth \in {1, 2} : get_graph(word, depth)

SpecShared == InitShared /\ [][NextShared]_vars

(* ---- graph requests over stores whose lexemes and codes contain '|' ---- *)
PipeWordPool ==
    { Word(2, <<"e">>, <<"t", "|", "w">>, Null),
      Word(3, <<"w", "|", "e">>, <<"t">>, Null),
      Word(4, De, <<"t", "|", "w">>, Null),
      Word(5, De, <<"z", "z">>, Null) }

PipeLinkPool ==
    { Link("inh", 1, 2), Link("inh", 1, 3), Link("inh", 1, 4), Link("inh", 1, 5),
      Link("inh", 2, 3), Link("inh", 4, 3) }

InitPipe ==
    /\ \E T \in SUBSET PipeWordPool : words = {Word(1, En, <<"t", "w">>, Some(<<"a">>))} \cup T
    /\ links \in {L \in SUBSET PipeLinkPool : Cardinality(L) <= MaxLinks}
    /\ sequences = {}
    /\ language_families = LanguageFamilies
    /\ v_definitions = Some(Definitions)
    /\ call = [op |-> "none", word |-> <<>>, depth |-> 0]
    /\ start = Null
    /\ result = Null
    /\ response = NoResponse
    /\ ServerIdle
    /\ BatchIdle

NextPipe ==
    \/ \E word \in {<<"T", "W">>, <<"t", "|", "w">>}, depth \in {1, 2} : fetch_etymology(word, depth)
    \/ \E word \in {<<"T", "W">>, <<"t", "|", "w">>}, depth \in {1, 2} : get_graph(word, depth)

SpecPipe == InitPipe /\ [][NextPipe]_vars

(* ----------- graph requests over stores that vary the node data ------- *)
\* stored senses: NULL, empty, two spellings of "tw", and another word
NodeSenses ==
    { Null, Some(<<>>), Some(<<"t", "w">>), Some(<<"T", "W">>), Some(<<"s">>) }

\* language codes: two with a language_families row, one spelled in another
\* case, one without a row
NodeLangs == { En, De, <<"d", "E">>, Gem }

\* v_definitions: missing (the query raises), empty, with a definition of
\* "tw", and with a further row whose definition is NULL
DefinitionTables ==
    { Null, Some({}), Some(Definitions),
      Some(Definitions \cup {[lexeme |-> <<"m", "o">>, definition |-> Null]}) }

InitNode ==
    /\ \E rs \in NodeSenses, tl \in NodeLangs, tx \in {<<"T", "w">>, <<"m", "o">>},
          ts \in NodeSenses :
          words = {Word(1, En, <<"t", "w">>, rs), Word(2, tl, tx, ts)}
    /\ links = {Link("inh", 1, 2)}
    /\ sequences = {}
    /\ language_families \in {LanguageFamilies, {}}
    /\ v_definitions \in DefinitionTables
    /\ call = [op |-> "none", word |-> <<>>, depth |-> 0]
    /\ start = Null
    /\ result = Null
    /\ response = NoResponse
    /\ ServerIdle
    /\ BatchIdle

NextNode ==
    \/ \E word \in {<<"T", "W">>, <<"m", "o">>} : fetch_etymology(word, 1)
    \/ \E word \in {<<"T", "W">>, <<"m", "o">>} : get_graph(word, 1)

SpecNode == InitNode /\ [][NextNode]_vars

(* ====================================================================== *)
(* Properties                                                             *)
(* ====================================================================== *)
IsGraphCall == call.op \in {"fetch_etymology", "get_graph"}

\* The depth the traversal of the last call ran with.
EffectiveDepth ==
    IF call.op = "get_graph" THEN ClampDepth(call.depth) ELSE _normalize_depth(call.depth)

NodesOf(r) == IF r = Null THEN <<>> ELSE r[1].nodes
EdgesOf(r) == IF r = Null THEN <<>> ELSE r[1].edges
NodeSet(r) == Range(NodesOf(r))
EdgePairs(r) == {<<e.source, e.target>> : e \in Range(EdgesOf(r))}

NodeIdOf(w) == w.lexeme \o <<"|">> \o w.lang
OutDegree(w) == Cardinality({l \in links : l.source = w.word_ix})
SameLexeme(w, word) == Lower(w.lexeme) = Lower(word)

\* C1: the start entry of a graph request matches the query without regard
\* to case; no match that is English loses to a non-English start, no match
\* of the start's language class has more outgoing links, and among those
\* with as many links none has a smaller entry id.  A query that matches
\* some entry always gets a start entry.
C1_StartIsBestMatch ==
    IsGraphCall =>
        /\ (start = Null) <=> (\A w \in words : ~SameLexeme(w, call.word))
        /\ start # Null =>
              /\ start[1] \in words
              /\ SameLexeme(start[1], call.word)
              /\ \A m \in words : SameLexeme(m, call.word) =>
                    /\ m.lang = En => start[1].lang = En
                    /\ (m.lang = En) = (start[1].lang = En) =>
                          /\ OutDegree(m) <= OutDegree(start[1])
                          /\ OutDegree(m) = OutDegree(start[1]) =>
                                start[1].word_ix <= m.word_ix

\* An English start that beat an English homograph of smaller id with fewer
\* links and a non-English match of smaller id with at least as many links.
C1_Witness ==
    /\ IsGraphCall
    /\ start # Null
    /\ start[1].lang = En
    /\ \E a \in words :
          /\ SameLexeme(a, call.word) /\ a.lang = En
          /\ a.word_ix < start[1].word_ix /\ OutDegree(a) < OutDegree(start[1])
    /\ \E n \in words :
          /\ SameLexeme(n, call.word) /\ n.lang # En
          /\ n.word_ix < start[1].word_ix /\ OutDegree(n) >= OutDegree(start[1])

\* C2: a graph request is NotFound (fetch_etymology returns None, /graph
\* answers 404) if and only if no stored lexeme equals the query without
\* regard to case.
C2_NotFoundIffNoMatch ==
    IsGraphCall =>
        /\ (result = Null) <=> (\A w \in words : ~SameLexeme(w, call.word))
        /\ call.op = "get_graph" =>
              ((response.status = 404) <=> (\A w \in words : ~SameLexeme(w, call.word)))

\* C3: when the query matches an entry that has no outgoing link, or the
\* depth is 0, the request succeeds with the no-etymology shape: one node (the root), no
\* edges, no_etymology = true and the root's lexeme; never NotFound/404.
C3_NoEtymologyShape ==
    (IsGraphCall /\ start # Null /\ (OutDegree(start[1]) = 0 \/ EffectiveDepth = 0))
    => /\ result # Null
       /\ Len(result[1].nodes) = 1
       /\ result[1].nodes[1].id = NodeIdOf(start[1])
       /\ result[1].edges = <<>>
       /\ call.op = "get_graph" =>
             /\ response.status = 200
             /\ response.body.no_etymology = TRUE
             /\ response.body.lexeme = start[1].lexeme

\* The ids reachable from the root id in at most n link steps when the root
\* is expanded and any other id is expanded unless it is an entry whose
\* sense is null or empty; a negative target stands for its sequence parents.
RECURSIVE CuratedReach(_, _)
CuratedReach(root_ix, n) ==
    IF n = 0 THEN {root_ix}
    ELSE LET prev == CuratedReach(root_ix, n - 1)
             open == {ix \in prev : ix = root_ix
                          \/ \A w \in words : w.word_ix = ix => Truthy(w.sense)}
             direct == {l.target : l \in {x \in links : x.source \in open}}
             parts == {sr.parent_ix : sr \in {x \in sequences : x.seq_ix \in direct}}
         IN  prev \cup direct \cup parts

\* C4: an entry with a null or empty sense that is reached as a non-root node
\* is terminal: no edge of the result starts at it, and every node of the
\* result is reachable from the root without expanding such an entry.
C4_NullSenseIsTerminal ==
    (IsGraphCall /\ result # Null) =>
        /\ \A w \in words :
              (~Truthy(w.sense) /\ NodeIdOf(w) # NodeIdOf(start[1])
                  /\ \E n \in NodeSet(result) : n.id = NodeIdOf(w))
              => \A e \in Range(EdgesOf(result)) : e.source # NodeIdOf(w)
        /\ \A n \in NodeSet(result) :
              \E w \in words :
                  /\ w.word_ix \in CuratedReach(start[1].word_ix, EffectiveDepth)
                  /\ NodeIdOf(w) = n.id

\* C5: a traversed link from W with a negative target S gives one edge from
\* W to every parent entry of sequence S, flagged compound and carrying the
\* link's type; the parents are nodes and S is no node and no edge endpoint.
C5_SequenceExpansion ==
    (IsGraphCall /\ start # Null /\ EffectiveDepth >= 1) =>
        \A l \in links : (l.source = start[1].word_ix /\ l.target < 0) =>
            \A sr \in sequences, p \in words :
                (sr.seq_ix = l.target /\ sr.parent_ix = p.word_ix
                    /\ NodeIdOf(p) # NodeIdOf(start[1])) =>
                    /\ result # Null
                    /\ \E n \in NodeSet(result) : n.id = NodeIdOf(p)
                    /\ \E e \in Range(EdgesOf(result)) :
                          /\ e.source = NodeIdOf(start[1])
                          /\ e.target = NodeIdOf(p)
                          /\ e.compound = TRUE
                          /\ e.type = l.type

\* C6: every edge carries the type of the stored link it was produced from,
\* and an edge produced from a direct link is not flagged compound; a chain
\* of three entries joined by two links of one type gives, from depth 2 on,
\* exactly 3 nodes and 2 edges, both of that type and none compound.
C6_EdgesCarryLinkType ==
    (IsGraphCall /\ result # Null) =>
      /\ (/\ links = {Link("inh", 2, 5), Link("inh", 5, 1)}
          /\ words = WordPool /\ EffectiveDepth >= 2 /\ start[1].word_ix = 2)
         => /\ Len(result[1].nodes) = 3
            /\ Len(result[1].edges) = 2
            /\ \A e \in Range(EdgesOf(result)) : e.type = "inh" /\ ~e.compound
      /\ \A e \in Range(EdgesOf(result)) :
            /\ "type" \in DOMAIN e
            /\ "compound" \in DOMAIN e
            /\ \E l \in links, c \in words, p \in words :
                  /\ l.source = c.word_ix /\ NodeIdOf(c) = e.source
                  /\ \/ l.target = p.word_ix /\ ~e.compound
                     \/ \E sr \in sequences :
                           sr.seq_ix = l.target /\ sr.parent_ix = p.word_ix /\ e.compound
                  /\ NodeIdOf(p) = e.target
                  /\ l.type = e.type

\* C7: no two edges of a result have the same (source, target) pair and no
\* edge has its source equal to its target.
C7_EdgesDistinctNoSelfLoop ==
    (IsGraphCall /\ result # Null) =>
        /\ \A i, j \in 1..Len(result[1].edges) :
              (result[1].edges[i].source = result[1].edges[j].source
                  /\ result[1].edges[i].target = result[1].edges[j].target) => i = j
        /\ \A i \in 1..Len(result[1].edges) :
              result[1].edges[i].source # result[1].edges[i].target

\* A result over two parallel links from the start to one target that has a
\* self-link, all of them traversed.
C7_Witness ==
    /\ IsGraphCall /\ result # Null /\ EffectiveDepth >= 2
    /\ \E l1, l2 \in links :
          /\ l1 # l2 /\ l1.source = start[1].word_ix /\ l2.source = l1.source
          /\ l1.target = l2.target
          /\ \E w \in words : w.word_ix = l1.target
          /\ \E l3 \in links : l3.source = l1.target /\ l3.target = l1.target

\* C8: no two nodes of a result have the same id, also when several entries
\* with one lexeme and language are reached.
C8_NodeIdsDistinct ==
    (IsGraphCall /\ result # Null) =>
        \A i, j \in 1..Len(result[1].nodes) :
            result[1].nodes[i].id = result[1].nodes[j].id => i = j

\* C9: every node and every edge returned for a root at depth d is returned
\* for that root at depth d + 1.
C9_DepthMonotone ==
    (IsGraphCall /\ EffectiveDepth >= 1) =>
        \A o \in FetchOutcomes(call.word, EffectiveDepth - 1) :
            /\ NodeSet(o.result) \subseteq NodeSet(result)
            /\ EdgePairs(o.result) \subseteq EdgePairs(result)

\* A request whose result has more nodes and more edges than the non-empty
\* result of the same word one level shallower.
C9_Witness ==
    /\ IsGraphCall /\ EffectiveDepth >= 2 /\ result # Null
    /\ \E o \in FetchOutcomes(call.word, EffectiveDepth - 1) :
          /\ o.result # Null
          /\ NodeSet(o.result) # NodeSet(result)
          /\ EdgePairs(o.result) # EdgePairs(result)

\* C10: over an unchanged store every outcome a request for the same word and
\* depth can have has the same resolved root, the same set of nodes and the
\* same set of edges as the outcome observed.
C10_Deterministic ==
    IsGraphCall =>
        \A o \in FetchOutcomes(call.word, EffectiveDepth) :
            /\ o.start = start
            /\ (o.result = Null) <=> (result = Null)
            /\ NodeSet(o.result) = NodeSet(result)
            /\ EdgePairs(o.result) = EdgePairs(result)

\* A request with homographs matching the query whose lists could have come
\* back in another order.
C10_Witness ==
    /\ IsGraphCall /\ result # Null
    /\ Cardinality({w \in words : SameLexeme(w, call.word)}) >= 2
    /\ \E o \in FetchOutcomes(call.word, EffectiveDepth) : o.result # result

\* The ids reachable from the ids of S in at most n link steps (S included).
RECURSIVE LinkClosure(_, _)
LinkClosure(S, n) ==
    IF n = 0 THEN S
    ELSE LET prev == LinkClosure(S, n - 1)
         IN  prev \cup {l.target : l \in {x \in links : x.source \in prev}}

\* Some link lies on a cycle (a self-link is a cycle of length one).
HasCycle == \E l \in links : l.source \in LinkClosure({l.target}, Cardinality(links))

\* Some link has a target that is the id of no word entry.
HasDanglingTarget == \E l \in links : \A w \in words : w.word_ix # l.target

\* n + n^2 + ... + n^d: the most rows a traversal of depth d over n links has.
RECURSIVE RowBound(_, _)
RowBound(n, d) == IF d = 0 THEN 0 ELSE n * (1 + RowBound(n, d - 1))

\* C11: over a store whose links hold a cycle or a target that matches no
\* word, a graph request ends with a finite result (the traversal has a
\* bounded number of rows) in which no node id and no (source, target) edge
\* appears twice.
C11_CyclesTerminate ==
    (IsGraphCall /\ start # Null /\ (HasCycle \/ HasDanglingTarget)) =>
        /\ EffectiveDepth > 0 =>
              \A scan \in ScanOrders(links) :
                  Len(Traversal(start[1].word_ix, scan, EffectiveDepth))
                      <= RowBound(Cardinality(links), EffectiveDepth)
        /\ \A i, j \in 1..Len(NodesOf(result)) :
              NodesOf(result)[i].id = NodesOf(result)[j].id => i = j
        /\ \A i, j \in 1..Len(EdgesOf(result)) :
              (EdgesOf(result)[i].source = EdgesOf(result)[j].source
                  /\ EdgesOf(result)[i].target = EdgesOf(result)[j].target) => i = j

\* C12: the depth /graph passes to the traversal lies in [1, 10]: 1 for a
\* depth below 1, 10 for a depth above 10, the depth itself otherwise; and a
\* direct fetch_etymology call with a negative depth has the outcome of the
\* call with depth 0.
C12_DepthClamped ==
    /\ call.op = "get_graph" =>
          /\ call.passed \in 1..10
          /\ call.depth < 1 => call.passed = 1
          /\ call.depth > 10 => call.passed = 10
          /\ call.depth \in 1..10 => call.passed = call.depth
    /\ (call.op = "fetch_etymology" /\ call.depth < 0) =>
          \A o \in FetchOutcomes(call.word, 0) : o.start = start /\ o.result = result

\* A /graph request with a depth above 10 that returned a graph.
C12_Witness ==
    /\ call.op = "get_graph" /\ call.depth > 10 /\ result # Null
    /\ response.status = 200

\* The word entries a node of a result stands for.
EntriesOf(n) == {w \in words : NodeIdOf(w) = n.id}

\* The external definitions stored for a lexeme, looked up in lower case.
ExternalDefinitions(lexeme) ==
    IF v_definitions = Null THEN {}
    ELSE {d.definition[1] : d \in {x \in v_definitions[1] :
              Lower(x.lexeme) = Lower(lexeme) /\ x.definition # Null}}

C14_LanguageMetadata ==
    (IsGraphCall /\ result # Null) =>
        \A n \in NodeSet(result) :
            IF \E r \in language_families : r.lang_code = n.lang
            THEN \E r \in language_families :
                    /\ r.lang_code = n.lang
                    /\ "family" \in DOMAIN n /\ "branch" \in DOMAIN n
                    /\ n.lang_name = r.lang_name
                    /\ n.family = r.family
                    /\ n.branch = r.branch
            ELSE /\ n.lang_name = n.lang
                 /\ "family" \notin DOMAIN n
                 /\ "branch" \notin DOMAIN n

\* A result with a node that has language metadata and a node whose code,
\* the same letters in another case, has none.
C14_Witness ==
    /\ IsGraphCall /\ result # Null
    /\ \E n, m \in NodeSet(result) :
          /\ "family" \in DOMAIN n
          /\ "family" \notin DOMAIN m
          /\ \E r \in language_families : Lower(r.lang_code) = Lower(m.lang)

\* C15: whatever stored sense, language_families row and external definition
\* are present, and also when v_definitions is missing, a graph request for a
\* stored word with a link to another word returns its nodes; each node has
\* id, lexeme, lang and lang_name, and sense, family and branch are either
\* absent or hold a value; with v_definitions missing a sense shown is the
\* stored one.
C15_EnrichmentNeverFails ==
    (/\ IsGraphCall /\ start # Null /\ EffectiveDepth >= 1
     /\ \E l \in links, p \in words :
           l.source = start[1].word_ix /\ l.target = p.word_ix
           /\ NodeIdOf(p) # NodeIdOf(start[1]))
    => /\ result # Null
       /\ call.op = "get_graph" => response.status = 200
       /\ \E n \in NodeSet(result) : n.id = NodeIdOf(start[1])
       /\ \A l \in links, p \in words :
             (l.source = start[1].word_ix /\ l.target = p.word_ix)
             => \E n \in NodeSet(result) : n.id = NodeIdOf(p)
       /\ \A n \in NodeSet(result) :
             /\ {"id", "lexeme", "lang", "lang_name"} \subseteq DOMAIN n
             /\ DOMAIN n \subseteq {"id", "lexeme", "lang", "lang_name", "sense", "family", "branch"}
             /\ "sense" \in DOMAIN n => n.sense # <<>>
             /\ ("family" \in DOMAIN n) <=> ("branch" \in DOMAIN n)
             /\ (v_definitions = Null /\ "sense" \in DOMAIN n)
                => \E w \in EntriesOf(n) : w.sense = Some(n.sense)

\* A request served while v_definitions is missing and no language has a
\* row: a node without sense next to a node with its stored sense.
C15_Witness ==
    /\ IsGraphCall /\ result # Null
    /\ v_definitions = Null /\ language_families = {}
    /\ \E n, m \in NodeSet(result) :
          /\ "sense" \notin DOMAIN n /\ "family" \notin DOMAIN n
          /\ "sense" \in DOMAIN m

(* ------------------------ properties of search ------------------------ *)
IsSearchCall == call.op \in {"search_words", "search"}

\* C16: a query of fewer than 2 characters returns an empty list without
\* querying the store and without raising; a query of 2 or more characters
\* is evaluated against the store.
C16_ShortQueries ==
    IsSearchCall =>
        /\ Len(call.word) < 2 =>
              /\ result = <<>>
              /\ ~call.queried
              /\ ~call.raised
              /\ call.op = "search" => response = [status |-> 200, body |-> [results |-> <<>>]]
        /\ Len(call.word) >= 2 => call.queried

\* A one-character query answered with the empty list over a store in which
\* the query would have matched entries and in which reading v_definitions
\* raises.
C16_Witness ==
    /\ call.op = "search_words" /\ call.word = <<"t">>
    /\ result = <<>>
    /\ v_definitions = Null
    /\ \E w \in words : w.word_ix = 1 /\ \E l \in links : l.source = 1

\* A search call that ran its query and returned a list.
SearchAnswered == IsSearchCall /\ call.queried /\ ~call.raised

\* The query is a prefix of the lexeme, compared without regard to case and
\* character by character.
LiteralPrefix(query, lexeme) ==
    /\ Len(query) <= Len(lexeme)
    /\ Lower(SubSeq(lexeme, 1, Len(query))) = Lower(query)

\* The useful senses stored for a lexeme among the curated entries.
UsefulSenses(lexeme) ==
    {w.sense[1] : w \in {c \in v_english_curated :
        /\ c.lexeme = lexeme
        /\ c.sense # Null
        /\ c.sense[1] # <<>>
        /\ Lower(c.sense[1]) # <<"n", "o", "n", "e">>
        /\ Lower(c.sense[1]) # Lower(lexeme)}}

RowsOf(lexeme) == {i \in 1..Len(result) : result[i].word = lexeme}

\* C17: in an untruncated result a matching lexeme with useful senses has
\* exactly one row per distinct useful sense, and a matching lexeme without
\* one has exactly one row, with the external definition when one exists and
\* no sense otherwise.
C17_OneRowPerDistinctSense ==
    (SearchAnswered /\ Len(result) < call.passed) =>
        \A w \in v_english_curated :
            LiteralPrefix(call.word, w.lexeme) =>
                IF UsefulSenses(w.lexeme) # {}
                THEN /\ {result[i].sense : i \in RowsOf(w.lexeme)}
                          = {Some(u) : u \in UsefulSenses(w.lexeme)}
                     /\ Cardinality(RowsOf(w.lexeme)) = Cardinality(UsefulSenses(w.lexeme))
                ELSE /\ Cardinality(RowsOf(w.lexeme)) = 1
                     /\ \A i \in RowsOf(w.lexeme) :
                           LET defs == ExternalDefinitions(w.lexeme)
                           IN  IF defs = {} THEN result[i].sense = Null
                               ELSE \E d \in defs : result[i].sense = Some(Strip(d))

\* a comes before b in the order of lexemes: equal to the query first, then
\* shorter first, then in lexical order
LexemeBefore(a, b, query) ==
    LET exact(x) == IF Lower(x) = Lower(query) THEN 0 ELSE 1
    IN  \/ exact(a) < exact(b)
        \/ exact(a) = exact(b) /\ Len(a) < Len(b)
        \/ exact(a) = exact(b) /\ Len(a) = Len(b) /\ StringLess(a, b)

\* The curated entries of a lexeme that have a useful sense.
UsefulEntries(lexeme) ==
    {c \in v_english_curated : c.lexeme = lexeme /\ _is_useful_sense(c.sense, lexeme)}

\* C18: rows are ordered by lexeme (equal to the query first, then shorter,
\* then lexical), so the rows of one lexeme are adjacent; the rows of one
\* lexeme follow the entry ids of its entries.
C18_Ordering ==
    SearchAnswered =>
        /\ \A i, j \in 1..Len(result) :
              i < j => \/ result[i].word = result[j].word
                       \/ LexemeBefore(result[i].word, result[j].word, call.word)
        /\ \A i \in 1..Len(result) :
              LET x == result[i].word
                  k == Cardinality({j \in RowsOf(x) : j < i})
              IN  UsefulEntries(x) # {} =>
                     \E e \in UsefulEntries(x) :
                        /\ Cardinality({f \in UsefulEntries(x) : f.word_ix < e.word_ix}) = k
                        /\ result[i].sense = Some(Strip(e.sense[1]))

\* A result in which a shorter lexeme precedes one that is lexically smaller
\* and a lexeme has two rows with different senses.
C18_Witness ==
    /\ SearchAnswered
    /\ \E i, j \in 1..Len(result) :
          /\ i < j
          /\ Len(result[i].word) < Len(result[j].word)
          /\ StringLess(result[j].word, result[i].word)
    /\ \E i, j \in 1..Len(result) :
          i < j /\ result[i].word = result[j].word /\ result[i].sense # result[j].sense

\* The list search_words returns when the limit exceeds the number of entries.
Untruncated(query) == SearchOutcome(query, Cardinality(words) + 1).results

IsPrefix(s, t) == Len(s) <= Len(t) /\ s = SubSeq(t, 1, Len(s))

\* C19: search_words(query, limit) returns at most limit rows, the first
\* rows of the untruncated result, and a larger limit only appends rows;
\* /search never returns more than 20 rows.
C19_LimitTruncation ==
    SearchAnswered =>
        /\ call.op = "search_words" =>
              /\ Len(result) <= (IF call.limit > 0 THEN call.limit ELSE 0)
              /\ IsPrefix(result, Untruncated(call.word))
              /\ \A larger \in SearchLimits :
                    larger >= call.limit
                    => IsPrefix(result, SearchOutcome(call.word, larger).results)
        /\ call.op = "search" => Len(result) <= 20

\* C20: for a query of 2 or more characters every row returned is for a
\* curated English entry (language 'en', no space, not an upper-case letter
\* followed by a lower-case one, at least one outgoing link) of whose lexeme
\* the query is a literal case-insensitive prefix.
C20_CuratedLiteralPrefix ==
    (SearchAnswered /\ Len(call.word) >= 2) =>
        \A i \in 1..Len(result) :
            \E w \in words :
                /\ w.lexeme = result[i].word
                /\ w.lang = En
                /\ \A k \in 1..Len(w.lexeme) : w.lexeme[k] # " "
                /\ ~(/\ Len(w.lexeme) >= 2
                     /\ w.lexeme[1] \in {"T", "W", "M", "E", "N"}
                     /\ w.lexeme[2] \in {"a", "b", "c", "d", "e", "m", "n", "o", "s", "t", "w", "x", "z"})
                /\ \E l \in links : l.source = w.word_ix
                /\ LiteralPrefix(call.word, w.lexeme)

(* --------------------- further properties of graphs -------------------- *)
\* C24: for a depth d >= 1 every node of the result is an entry at most d
\* links from the root (the root included), and every edge is a link whose
\* source is at most d - 1 links from the root.
C24_DepthBound ==
    (IsGraphCall /\ result # Null /\ EffectiveDepth >= 1) =>
        LET root == start[1].word_ix
            d == EffectiveDepth
        IN  /\ \A n \in NodeSet(result) :
                  \E w \in words : NodeIdOf(w) = n.id /\ w.word_ix \in LinkClosure({root}, d)
            /\ \A e \in Range(EdgesOf(result)) :
                  \E l \in links, c \in words, p \in words :
                      /\ c.word_ix = l.source /\ p.word_ix = l.target
                      /\ NodeIdOf(c) = e.source /\ NodeIdOf(p) = e.target
                      /\ l.source \in LinkClosure({root}, d - 1)

\* A result that leaves out an entry d + 1 links from the root.
C24_Witness ==
    /\ IsGraphCall /\ result # Null /\ EffectiveDepth >= 1
    /\ \E w \in words :
          /\ w.word_ix \in LinkClosure({start[1].word_ix}, EffectiveDepth + 1)
          /\ w.word_ix \notin LinkClosure({start[1].word_ix}, EffectiveDepth)
          /\ \A n \in NodeSet(result) : n.id # NodeIdOf(w)

\* C25: in a result the root's node is in the node list and the source and
\* the target of every edge are ids of nodes in the node list, also over a
\* store in which several word rows share a word_ix.
C25_EdgeEndpointsAreNodes ==
    (IsGraphCall /\ result # Null) =>
        /\ \E n \in NodeSet(result) : n.id = NodeIdOf(start[1])
        /\ \A e \in Range(EdgesOf(result)) :
              /\ \E n \in NodeSet(result) : n.id = e.source
              /\ \E n \in NodeSet(result) : n.id = e.target

\* C26: two nodes of a result have the same id only if they have the same
\* lexeme and the same language, also when a lexeme or a language code
\* contains the separator '|'.
C26_NodeIdInjective ==
    (IsGraphCall /\ result # Null) =>
        \A n, m \in NodeSet(result) :
            n.id = m.id => (n.lexeme = m.lexeme /\ n.lang = m.lang)

(* ----------------- properties of random word and health ---------------- *)
\* A curated English entry: English, no space in the lexeme, not an
\* upper-case letter followed by a lower-case one, at least one outgoing link.
IsCuratedEntry(w) ==
    /\ w.lang = En
    /\ \A k \in 1..Len(w.lexeme) : w.lexeme[k] # " "
    /\ ~(/\ Len(w.lexeme) >= 2
         /\ w.lexeme[1] \in {"T", "W", "M", "E", "N"}
         /\ w.lexeme[2] \in {"a", "b", "c", "d", "e", "m", "n", "o", "s", "t", "w", "x", "z"})
    /\ \E l \in links : l.source = w.word_ix

\* C21: the random-word operation returns the lexeme of a curated English
\* entry whenever there is one and no word only when there is none; /random
\* succeeds for both values of include_compound, and with include_compound
\* false the word has a link whose target is a word (a positive id).
C21_RandomWord ==
    /\ call.op = "fetch_random_word" =>
          /\ result # Null
          /\ IF \E w \in words : IsCuratedEntry(w)
             THEN \E w \in words : IsCuratedEntry(w) /\ result[1].word = Some(w.lexeme)
             ELSE result[1].word = Null
    /\ call.op = "get_random_word" =>
          /\ response.status = 200
          /\ IF \E w \in words : IsCuratedEntry(w)
             THEN \E w \in words :
                     /\ IsCuratedEntry(w)
                     /\ response.body.word = Some(w.lexeme)
                     /\ ~call.include_compound =>
                           \E l \in links : l.source = w.word_ix /\ l.target > 0
             ELSE response.body.word = Null

AloneResults(c) ==
    CASE c.op = "fetch_etymology" -> {o.result : o \in FetchOutcomes(c.word, c.arg)}
      [] c.op = "search_words" -> {SearchOutcome(c.word, c.arg).results}
      [] c.op = "fetch_random_word" -> {o.value : o \in RandomOutcomes({})}
      [] c.op = "fetch_language_info" -> {fetch_language_info(c.word)}

\* C22: no step of a request changes words, links, sequences,
\* language_families or v_definitions, and whatever the interleaving a
\* request returns a value that the same call returns when it runs alone.
C22_ReadOnlyRequests ==
    [][/\ store' = store
       /\ \A s \in Slots :
             (requests'[s].pc = "returned" /\ requests[s].pc # "returned")
             => requests'[s].result \in AloneResults(requests'[s].call)]_vars

\* A graph request that returned its graph while another request, for
\* another word, is between its start query and its traversal.
C22_Witness ==
    \E s, t \in Slots :
        /\ requests[s].pc = "returned" /\ requests[s].call.op = "fetch_etymology"
        /\ requests[s].result # Null
        /\ requests[t].pc = "traverse"
        /\ requests[t].start # requests[s].start

\* the requests inside their with block
InBlock(s) == requests[s].pc \in {"block", "traverse", "exit"}

\* C27: every open connection is read-only and belongs to exactly one
\* request, which is inside its with block; a request inside its block has
\* its own open connection; a request that has ended, by return or by
\* exception, has no open connection.
C27_ConnectionPerRequest ==
    /\ \A c \in 1..Len(connections) :
          connections[c].open =>
              /\ connections[c].read_only
              /\ InBlock(connections[c].owner)
              /\ requests[connections[c].owner].conn = c
    /\ \A s \in Slots :
          InBlock(s) => /\ requests[s].conn \in 1..Len(connections)
                        /\ connections[requests[s].conn].open
                        /\ connections[requests[s].conn].owner = s
    /\ \A s, t \in Slots :
          (s # t /\ InBlock(s) /\ InBlock(t)) => requests[s].conn # requests[t].conn
    /\ \A s \in Slots :
          requests[s].pc \in {"idle", "returned", "raised"}
          => \A c \in 1..Len(connections) : connections[c].owner = s => ~connections[c].open

\* A request that ended by an exception raised inside its block, and one
\* that returned early from inside its block, both with their connection
\* closed, while no connection is open.
C27_Witness ==
    \E s, t \in Slots :
        /\ requests[s].pc = "raised" /\ requests[s].conn # 0
        /\ requests[t].pc = "returned" /\ requests[t].conn # 0
        /\ requests[t].call.op = "fetch_etymology" /\ requests[t].start = Null
        /\ \A c \in 1..Len(connections) : ~connections[c].open

(* ------------------------ properties of the jobs ----------------------- *)
IsOk(resp) == resp.kind = "response" /\ resp.status = 200 /\ resp.json
IsNotFound(resp) == resp.kind = "response" /\ resp.status = 404
IsFailure(resp) == ~IsOk(resp) /\ ~IsNotFound(resp)

\* C28: fetch_definition makes at most 3 HTTP attempts; a 200 ends it with
\* success and the payload, a 404 with not_found, both at once; a 429,
\* another status or an exception is retried, and error is returned only
\* after the third failed attempt.
C28_FetchRetries ==
    fetch.pc # "idle" =>
        /\ Len(fetch.log) <= 3
        /\ \A i \in 1..(Len(fetch.log) - 1) : IsFailure(fetch.log[i])
        /\ fetch.pc = "attempt" =>
              /\ Len(fetch.log) < 3
              /\ \A i \in 1..Len(fetch.log) : IsFailure(fetch.log[i])
        /\ fetch.pc = "done" =>
              /\ Len(fetch.log) >= 1
              /\ fetch.status \in {"success", "not_found", "error"}
              /\ LET last == fetch.log[Len(fetch.log)]
                 IN  /\ IsOk(last) => (fetch.status = "success" /\ fetch.payload = Some(last.data))
                     /\ IsNotFound(last) => (fetch.status = "not_found" /\ fetch.payload = Null)
                     /\ IsFailure(last) => /\ fetch.status = "error"
                                           /\ fetch.payload = Null
                                           /\ Len(fetch.log) = 3

\* A call that returned not_found on its third attempt, after a 429 and an
\* exception.
C28_Witness ==
    /\ fetch.pc = "done" /\ fetch.status = "not_found"
    /\ Len(fetch.log) = 3
    /\ fetch.log[1].status = 429
    /\ fetch.log[2].kind = "exception"

IsWhole(content) == content # Null /\ content[1].chunks = ChunksPerFile

\* C29: a destination never holds a partial file and, once there, is never
\* changed; it appears only by the rename of a wholly written .tmp sibling;
\* no chunk is fetched for a destination that exists; a failure leaves the
\* destination absent; a call that ends has every destination in place.
C29_AtomicDownload ==
    [][\A name \in FILES :
          LET dest == <<name, "">>
              tmp == <<name, ".tmp">>
          IN  /\ files[dest] # Null => IsWhole(files[dest])
              /\ files'[dest] # Null => IsWhole(files'[dest])
              /\ files[dest] # Null => files'[dest] = files[dest]
              /\ (files[dest] = Null /\ files'[dest] # Null)
                 => (IsWhole(files[tmp]) /\ files'[dest] = files[tmp] /\ files'[tmp] = Null)
              /\ files'[tmp] # files[tmp] => files[dest] = Null
              /\ (dl'.pc = "failed" /\ dl.pc = "stream" /\ Head(dl.todo) = name)
                 => files'[dest] = Null
              /\ dl'.pc = "done" => IsWhole(files'[dest])]_vars

\* A call that failed in the middle of the second file: the first file was
\* there before and is unchanged, the second destination is absent and its
\* .tmp sibling is partial.
C29_Witness ==
    /\ dl.pc = "failed"
    /\ files[<<"etymdb_values.csv", "">>] = Some(FileContent(ChunksPerFile, "old"))
    /\ files[<<"etymdb_links_info.csv", "">>] = Null
    /\ files[<<"etymdb_links_info.csv", ".tmp">>] = Some(FileContent(1, "new"))

\* The curated English lexemes that have no row in definitions_raw.
MissingLexemes ==
    {w.lexeme : w \in {c \in words : IsCuratedEntry(c)}}
        \ {r.lexeme : r \in Rows(definitions_raw)}

\* What holds of every run, limited or not: the words of a run are distinct
\* and were missing, each word fetched so far has a row and no lexeme has
\* two, fewer than COMMIT_EVERY rows wait for a commit, and at the end of a
\* completed run every row is committed.
RunStoresAndCommits ==
    /\ (run.pc = "loop" /\ run.i = 0) =>
          /\ Range(run.words) \subseteq MissingLexemes
          /\ Cardinality(Range(run.words)) = Len(run.words)
    /\ run.pc \in {"loop", "done"} =>
          LET rows == Rows(definitions_raw) \cup pending
          IN  /\ {run.words[k] : k \in 1..run.i} \subseteq {r.lexeme : r \in rows}
              /\ Cardinality({r.lexeme : r \in rows}) = Cardinality(rows)
    /\ Cardinality(pending) < COMMIT_EVERY
    /\ run.pc = "done" =>
          /\ pending = {}
          /\ run.i = Len(run.words)
          /\ Range(run.words) \subseteq {r.lexeme : r \in Rows(definitions_raw)}

\* C30 as stated: a run fetches exactly the curated English lexemes without
\* a row, stores one row for each, commits them, and after a completed run
\* no lexeme is left for a second run.
C30_Resumable ==
    /\ RunStoresAndCommits
    /\ (run.pc = "loop" /\ run.i = 0) => Range(run.words) = MissingLexemes
    /\ run.pc = "done" => MissingLexemes = {}

\* C30 amended: the same for a run without a word limit (max_words None).
C30_ResumableUnlimited ==
    /\ RunStoresAndCommits
    /\ (run.pc = "loop" /\ run.i = 0 /\ run.max_words = 0)
       => Range(run.words) = MissingLexemes
    /\ (run.pc = "done" /\ run.max_words = 0) => MissingLexemes = {}

\* A completed run that resumed after an interrupted one: it fetched fewer
\* words than definitions_raw holds rows, over a connection that commits
\* only on commit(), with more than COMMIT_EVERY rows stored.
C30_Witness ==
    /\ run.pc = "done" /\ run.max_words = 0 /\ ~run.autocommit
    /\ run.i >= 1
    /\ run.i < Cardinality(Rows(definitions_raw))
    /\ Cardinality(Rows(definitions_raw)) > COMMIT_EVERY
====
